---- MODULE Spec2Model ----
(***************************************************************************)
(* pycronofy: CronofyClient (src/pycronofy/client.py) over its three       *)
(* collaborators Auth, RequestHandler and Pages.  The client's methods are *)
(* translated from client.py; Auth, RequestHandler, Pages and the settings *)
(* module are not part of the sources at hand and are modelled from the    *)
(* written specification (sections 3, 4.1, 4.2, 4.3, 6).                   *)
(*                                                                         *)
(* Python values: None is the string "None"; an optional datetime is a set *)
(* of at most one clock value ({} is None); a dict is a record; a dict of  *)
(* which only the keys matter (an event) is the set of its keys.           *)
(*                                                                         *)
(* The caller makes at most MaxCalls client calls; the consumer of a Pages *)
(* object iterates it (PagesNext) and lets go of it (Discard) before the   *)
(* next client call.  Client calls and the iteration share no state, so    *)
(* this only orders them.                                                  *)
(***************************************************************************)
EXTENDS Integers, Sequences, FiniteSets, TLC

VARIABLES
    auth,      \* the client's Auth object (self.auth)
    now,       \* the wall clock read by datetime.datetime.now(); a call takes one tick
    last,      \* the most recent Client call: arguments, requests sent, outcome
    linkUri,   \* redirect_uri of the most recent user_auth_link call ({} if none)
    srv,       \* the remote result set behind the paged endpoints: items per page
    pages,     \* the Pages object returned by the most recent read_* call
    yielded,   \* the items the iteration of `pages` has yielded so far
    fetches,   \* follow-up GETs issued by the iteration of `pages`
    failures,  \* how many of those ended in an HTTP error
    step       \* the most recent next() on `pages`: outcome and round trips

vars == <<auth, now, last, linkUri, srv, pages, yielded, fetches, failures, step>>

clientVars == <<auth, now, last, linkUri>>
pagesVars == <<srv, pages, yielded, fetches, failures, step>>

-----------------------------------------------------------------------------
(* Bounds of the model *)

MaxCalls == 2      \* Client calls made in one run (the clock stops there)
MaxPages == 2      \* pages of a remote result set
MaxPageLen == 2    \* items on one page
MaxFail == 1       \* failed follow-up fetches of one iteration

-----------------------------------------------------------------------------
(* Values *)

None == "None"

Falsy(s) == s = None \/ s = ""

\* The token sets the remote may grant.
Grants ==
    {[access_token |-> "A", refresh_token |-> "R", expires_in |-> 3600],
     [access_token |-> "B", refresh_token |-> "S", expires_in |-> 7200]}
RedirectUris == {"", "https://a/cb", "https://b/cb"}
Statuses == {200, 401}

API_BASE_URL == "api"
APP_BASE_URL == "app"
DEFAULT_OAUTH_SCOPE == <<"read_account", "list_calendars", "read_events">>
EVENTS_REQUIRED_FIELDS == <<"event_id", "summary", "start", "end">>

-----------------------------------------------------------------------------
(* Auth: credential state, pure data and mutation *)

Auth(client_id, client_secret, access_token, refresh_token) ==
    [client_id |-> client_id,
     client_secret |-> client_secret,
     access_token |-> access_token,
     refresh_token |-> refresh_token,
     authorization_datetime |-> {},
     expires_in |-> 0,
     redirect_uri |-> None]

\* Auth.update(**fields): overwrites the given subset of the fields.
AuthUpdate(a, fields) ==
    [k \in DOMAIN a |-> IF k \in DOMAIN fields THEN fields[k] ELSE a[k]]

-----------------------------------------------------------------------------
(* RequestHandler: one HTTP round trip per call; non-2xx raises *)

HTTPError == "HTTPError"
KeyError == "KeyError"
ValidationError == "Exception"

Request(method, target, data) ==
    [method |-> method, target |-> target, data |-> data]

ErrorBody == [error |-> "error"]
OkBody == [ok |-> "ok"]

\* What the remote may answer: a 2xx status with one of Bodies, or a
\* non-2xx status with an error body.
Replies(Bodies) ==
    {[status |-> s, body |-> b] : s \in Statuses \cap (200..299), b \in Bodies}
        \cup {[status |-> s, body |-> ErrorBody] : s \in Statuses \ (200..299)}

\* RequestHandler.get / post / delete fail with an HTTP error on non-2xx.
Raises(rsp) == rsp.status \notin 200..299

Restrict(f, S) == [k \in S |-> f[k]]

\* JSON bodies of the token endpoint, with any subset of the token fields.
TokenFields == {"access_token", "refresh_token", "expires_in"}

TokenBodies == {Restrict(g, P) : g \in Grants, P \in SUBSET TokenFields}

\* The record kept of one Client call.
Call(op, args, reqs, outcome, resp) ==
    [op |-> op, args |-> args, reqs |-> reqs, outcome |-> outcome, resp |-> resp]

NoCall == Call("none", <<>>, <<>>, "none", <<>>)

\* A method that is one RequestHandler call and touches nothing else.
OneRoundTrip(op, args, req) ==
    /\ \E rsp \in Replies({OkBody}) :
          last' = Call(op, args, <<req>>,
                       IF Raises(rsp) THEN HTTPError ELSE "ok", rsp)
    /\ now' = now + 1
    /\ UNCHANGED <<auth, linkUri>>
    /\ UNCHANGED pagesVars

-----------------------------------------------------------------------------
(* Pages: the pagination state machine *)

PageSeqs == UNION {[1..n -> 0..MaxPageLen] : n \in 1..MaxPages}

\* The JSON body of page p of result set s: the items under the result key
\* and the link to the next page, if any.
PageBody(s, p, key) ==
    (key :> [i \in 1..s[p] |-> <<p, i>>])
        @@ ("next_page" :> IF p < Len(s) THEN {p + 1} ELSE {})

NoPages == [state |-> "NONE"]

NoStep == [out |-> "none", gets |-> 0, crossed |-> 0]

\* Pages(request_handler, data, result_key, automatic_pagination)
Pages(data, result_key, automatic_pagination) ==
    [data |-> data,
     result_key |-> result_key,
     automatic_pagination |-> automatic_pagination,
     cursor |-> 0,
     state |-> "HAS_CURRENT_PAGE"]

Items(pg) == pg.data[pg.result_key]

\* The number, in the result set, of the page pg holds.
PageNo(pg) ==
    IF pg.data.next_page = {} THEN Len(srv)
    ELSE (CHOOSE p \in pg.data.next_page : TRUE) - 1

\* A next() whose failed follow-up GET rewinds the cursor of the current page.
RECURSIVE PagesAdvance_RewindOnError(_, _, _)
PagesAdvance_RewindOnError(pg, statuses, gets) ==
    IF pg.cursor < Len(Items(pg))
    THEN [pg |-> [pg EXCEPT !.cursor = @ + 1], out |-> "item",
          item |-> <<Items(pg)[pg.cursor + 1]>>,
          gets |-> gets, failed |-> 0]
    ELSE IF pg.data.next_page # {} /\ pg.automatic_pagination
    THEN IF Head(statuses) \notin 200..299
         THEN [pg |-> [pg EXCEPT !.cursor = 0], out |-> HTTPError, item |-> <<>>,
               gets |-> gets + 1, failed |-> 1]
         ELSE PagesAdvance_RewindOnError(
                 [pg EXCEPT !.data = PageBody(srv, CHOOSE p \in pg.data.next_page : TRUE,
                                              pg.result_key),
                            !.cursor = 0],
                 Tail(statuses), gets + 1)
    ELSE [pg |-> [pg EXCEPT !.state = "EXHAUSTED"], out |-> "StopIteration",
          item |-> <<>>, gets |-> gets, failed |-> 0]

\* One next() on pg; statuses are the statuses the remote gives to the
\* follow-up GETs of this call, in order.
RECURSIVE PagesAdvance(_, _, _)
PagesAdvance(pg, statuses, gets) ==
    IF pg.cursor < Len(Items(pg))
    THEN [pg |-> [pg EXCEPT !.cursor = @ + 1], out |-> "item",
          item |-> <<Items(pg)[pg.cursor + 1]>>,
          gets |-> gets, failed |-> 0]
    ELSE IF pg.data.next_page # {} /\ pg.automatic_pagination
    THEN IF Head(statuses) \notin 200..299
         THEN [pg |-> pg, out |-> HTTPError, item |-> <<>>,
               gets |-> gets + 1, failed |-> 1]
         ELSE PagesAdvance(
                 [pg EXCEPT !.data = PageBody(srv, CHOOSE p \in pg.data.next_page : TRUE,
                                              pg.result_key),
                            !.cursor = 0],
                 Tail(statuses), gets + 1)
    ELSE [pg |-> [pg EXCEPT !.state = "EXHAUSTED"], out |-> "StopIteration",
          item |-> <<>>, gets |-> gets, failed |-> 0]

\* The consumer asks the Pages object for its next item.
PagesNext ==
    /\ pages.state # "NONE"
    /\ \E statuses \in [1..MaxPages -> Statuses] :
          LET r == PagesAdvance(pages, statuses, 0) IN
          /\ failures + r.failed <= MaxFail
          /\ pages' = r.pg
          /\ yielded' = yielded \o r.item
          /\ fetches' = fetches + r.gets
          /\ failures' = failures + r.failed
          /\ step' = [out |-> r.out, gets |-> r.gets,
                      crossed |-> PageNo(r.pg) - PageNo(pages)]
    /\ UNCHANGED <<srv>>
    /\ UNCHANGED clientVars

-----------------------------------------------------------------------------
(* CronofyClient *)

Init ==
    /\ \E tokens \in {<<None, None>>, <<"A", "R">>} :
          auth = Auth("cid", "secret", tokens[1], tokens[2])
    /\ now = 0
    /\ last = NoCall
    /\ linkUri = {}
    /\ srv = <<0>>
    /\ pages = NoPages
    /\ yielded = <<>>
    /\ fetches = 0
    /\ failures = 0
    /\ step = NoStep

\* account with a retry of a failed GET.
account_Retry ==
    /\ \E rsp1 \in Replies({OkBody}), rsp2 \in Replies({OkBody}) :
          LET req == Request("GET", <<"account">>, <<>>) IN
          IF Raises(rsp1)
          THEN last' = Call("account", <<>>, <<req, req>>,
                            IF Raises(rsp2) THEN HTTPError ELSE "ok", rsp2)
          ELSE last' = Call("account", <<>>, <<req>>, "ok", rsp1)
    /\ now' = now + 1
    /\ UNCHANGED <<auth, linkUri>>
    /\ UNCHANGED pagesVars

account ==
    OneRoundTrip("account", <<>>, Request("GET", <<"account">>, <<>>))

close_notification_channel ==
    \E channel_id \in {"chn"} :
        OneRoundTrip("close_notification_channel", [channel_id |-> channel_id],
                     Request("DELETE", <<"channels", channel_id>>, <<>>))

create_notification_channel ==
    \E callback_url \in {"https://a/push"}, calendar_ids \in {<<>>, <<"cal">>} :
        LET data == IF calendar_ids # <<>>
                    THEN [callback_url |-> callback_url,
                          filters |-> [calendar_ids |-> calendar_ids]]
                    ELSE [callback_url |-> callback_url]
        IN OneRoundTrip("create_notification_channel",
                        [callback_url |-> callback_url, calendar_ids |-> calendar_ids],
                        Request("POST", <<"channels">>, data))

delete_event ==
    \E calendar_id \in {"cal"}, event_id \in {"evt"} :
        OneRoundTrip("delete_event", [calendar_id |-> calendar_id, event_id |-> event_id],
                     Request("DELETE", <<"calendars", calendar_id, "events">>,
                             [event_id |-> event_id]))

\* get_authorization_from_code with refresh_token left out of the update.
get_authorization_from_code_KeepsRefreshToken ==
    \E code \in {"code"}, redirect_uri \in RedirectUris :
      LET args == [code |-> code, redirect_uri |-> redirect_uri]
          req == Request("POST", <<API_BASE_URL, "oauth/token">>,
                    [grant_type |-> "authorization_code",
                     client_id |-> auth.client_id,
                     client_secret |-> auth.client_secret,
                     code |-> code,
                     redirect_uri |-> IF ~Falsy(redirect_uri) THEN redirect_uri
                                      ELSE auth.redirect_uri])
      IN
      /\ \E rsp \in Replies(TokenBodies) :
            IF Raises(rsp)
            THEN /\ last' = Call("get_authorization_from_code", args, <<req>>, HTTPError, rsp)
                 /\ UNCHANGED auth
            ELSE IF ~({"access_token", "refresh_token", "expires_in"} \subseteq DOMAIN rsp.body)
            THEN /\ last' = Call("get_authorization_from_code", args, <<req>>, KeyError, rsp)
                 /\ UNCHANGED auth
            ELSE /\ auth' = AuthUpdate(auth,
                               [authorization_datetime |-> {now + 1},
                                access_token |-> rsp.body.access_token,
                                expires_in |-> rsp.body.expires_in])
                 /\ last' = Call("get_authorization_from_code", args, <<req>>, "ok", rsp)
      /\ now' = now + 1
      /\ UNCHANGED linkUri
      /\ UNCHANGED pagesVars

get_authorization_from_code ==
    \E code \in {"code"}, redirect_uri \in RedirectUris :
      LET args == [code |-> code, redirect_uri |-> redirect_uri]
          req == Request("POST", <<API_BASE_URL, "oauth/token">>,
                    [grant_type |-> "authorization_code",
                     client_id |-> auth.client_id,
                     client_secret |-> auth.client_secret,
                     code |-> code,
                     redirect_uri |-> IF ~Falsy(redirect_uri) THEN redirect_uri
                                      ELSE auth.redirect_uri])
      IN
      /\ \E rsp \in Replies(TokenBodies) :
            IF Raises(rsp)
            THEN /\ last' = Call("get_authorization_from_code", args, <<req>>, HTTPError, rsp)
                 /\ UNCHANGED auth
            ELSE IF ~({"access_token", "refresh_token", "expires_in"} \subseteq DOMAIN rsp.body)
            THEN /\ last' = Call("get_authorization_from_code", args, <<req>>, KeyError, rsp)
                 /\ UNCHANGED auth
            ELSE /\ auth' = AuthUpdate(auth,
                               [authorization_datetime |-> {now + 1},
                                access_token |-> rsp.body.access_token,
                                refresh_token |-> rsp.body.refresh_token,
                                expires_in |-> rsp.body.expires_in])
                 /\ last' = Call("get_authorization_from_code", args, <<req>>, "ok", rsp)
      /\ now' = now + 1
      /\ UNCHANGED linkUri
      /\ UNCHANGED pagesVars

list_calendars ==
    OneRoundTrip("list_calendars", <<>>, Request("GET", <<"calendars">>, <<>>))

list_profiles ==
    OneRoundTrip("list_profiles", <<>>, Request("GET", <<"profiles">>, <<>>))

list_notification_channels ==
    OneRoundTrip("list_notification_channels", <<>>, Request("GET", <<"channels">>, <<>>))

\* The shared shape of read_events and read_free_busy: one GET, and on
\* success a Pages object over the first page.
ReadPaged(op, result_key, automatic_pagination, wrap_auto) ==
    /\ \E s \in PageSeqs, rsp_status \in Statuses :
         LET req == Request("GET", <<result_key>>, <<>>)
             args == [automatic_pagination |-> automatic_pagination]
             rsp == IF rsp_status \in 200..299
                    THEN [status |-> rsp_status, body |-> PageBody(s, 1, result_key)]
                    ELSE [status |-> rsp_status, body |-> ErrorBody]
         IN
         IF Raises(rsp)
         THEN /\ last' = Call(op, args, <<req>>, HTTPError, rsp)
              /\ UNCHANGED pagesVars
         ELSE /\ last' = Call(op, args, <<req>>, "ok", rsp)
              /\ srv' = s
              /\ pages' = Pages(rsp.body, result_key, wrap_auto)
              /\ yielded' = <<>>
              /\ fetches' = 0
              /\ failures' = 0
              /\ step' = NoStep
    /\ now' = now + 1
    /\ UNCHANGED <<auth, linkUri>>

\* read_events that drops its automatic_pagination argument (Pages' default).
read_events_AlwaysAuto ==
    \E automatic_pagination \in BOOLEAN :
        ReadPaged("read_events", "events", automatic_pagination, TRUE)

read_events ==
    \E automatic_pagination \in BOOLEAN :
        ReadPaged("read_events", "events", automatic_pagination, automatic_pagination)

\* read_free_busy that never lets Pages paginate.
read_free_busy_NoAuto ==
    \E automatic_pagination \in BOOLEAN :
        ReadPaged("read_free_busy", "free_busy", automatic_pagination, FALSE)

read_free_busy ==
    \E automatic_pagination \in BOOLEAN :
        ReadPaged("read_free_busy", "free_busy", automatic_pagination, automatic_pagination)

\* refresh_access_token that stores each token field as it reads it.
refresh_access_token_Piecewise ==
    LET req == Request("POST", <<API_BASE_URL, "oauth/token">>,
                  [grant_type |-> "refresh_token",
                   client_id |-> auth.client_id,
                   client_secret |-> auth.client_secret,
                   refresh_token |-> auth.refresh_token])
    IN
    /\ \E rsp \in Replies(TokenBodies) :
          IF Raises(rsp)
          THEN /\ last' = Call("refresh_access_token", <<>>, <<req>>, HTTPError, rsp)
               /\ UNCHANGED auth
          ELSE IF "access_token" \notin DOMAIN rsp.body
          THEN /\ last' = Call("refresh_access_token", <<>>, <<req>>, KeyError, rsp)
               /\ UNCHANGED auth
          ELSE IF "expires_in" \notin DOMAIN rsp.body
          THEN /\ last' = Call("refresh_access_token", <<>>, <<req>>, KeyError, rsp)
               /\ auth' = AuthUpdate(auth,
                             [authorization_datetime |-> {now + 1},
                              access_token |-> rsp.body.access_token])
          ELSE /\ auth' = AuthUpdate(auth,
                             [authorization_datetime |-> {now + 1},
                              access_token |-> rsp.body.access_token,
                              expires_in |-> rsp.body.expires_in])
               /\ last' = Call("refresh_access_token", <<>>, <<req>>, "ok", rsp)
    /\ now' = now + 1
    /\ UNCHANGED linkUri
    /\ UNCHANGED pagesVars

\* refresh_access_token that also stores a refresh_token the response carries.
refresh_access_token_StoresRefreshToken ==
    LET req == Request("POST", <<API_BASE_URL, "oauth/token">>,
                  [grant_type |-> "refresh_token",
                   client_id |-> auth.client_id,
                   client_secret |-> auth.client_secret,
                   refresh_token |-> auth.refresh_token])
    IN
    /\ \E rsp \in Replies(TokenBodies) :
          IF Raises(rsp)
          THEN /\ last' = Call("refresh_access_token", <<>>, <<req>>, HTTPError, rsp)
               /\ UNCHANGED auth
          ELSE IF ~({"access_token", "expires_in"} \subseteq DOMAIN rsp.body)
          THEN /\ last' = Call("refresh_access_token", <<>>, <<req>>, KeyError, rsp)
               /\ UNCHANGED auth
          ELSE /\ auth' = AuthUpdate(auth,
                             [authorization_datetime |-> {now + 1},
                              access_token |-> rsp.body.access_token,
                              refresh_token |-> IF "refresh_token" \in DOMAIN rsp.body
                                                THEN rsp.body.refresh_token
                                                ELSE auth.refresh_token,
                              expires_in |-> rsp.body.expires_in])
               /\ last' = Call("refresh_access_token", <<>>, <<req>>, "ok", rsp)
    /\ now' = now + 1
    /\ UNCHANGED linkUri
    /\ UNCHANGED pagesVars

refresh_access_token ==
    LET req == Request("POST", <<API_BASE_URL, "oauth/token">>,
                  [grant_type |-> "refresh_token",
                   client_id |-> auth.client_id,
                   client_secret |-> auth.client_secret,
                   refresh_token |-> auth.refresh_token])
    IN
    /\ \E rsp \in Replies(TokenBodies) :
          IF Raises(rsp)
          THEN /\ last' = Call("refresh_access_token", <<>>, <<req>>, HTTPError, rsp)
               /\ UNCHANGED auth
          ELSE IF ~({"access_token", "expires_in"} \subseteq DOMAIN rsp.body)
          THEN /\ last' = Call("refresh_access_token", <<>>, <<req>>, KeyError, rsp)
               /\ UNCHANGED auth
          ELSE /\ auth' = AuthUpdate(auth,
                             [authorization_datetime |-> {now + 1},
                              access_token |-> rsp.body.access_token,
                              expires_in |-> rsp.body.expires_in])
               /\ last' = Call("refresh_access_token", <<>>, <<req>>, "ok", rsp)
    /\ now' = now + 1
    /\ UNCHANGED linkUri
    /\ UNCHANGED pagesVars

revoke_authorization ==
    LET req == Request("POST", <<API_BASE_URL, "oauth/token/revoke">>,
                  [client_id |-> auth.client_id,
                   client_secret |-> auth.client_secret,
                   token |-> auth.access_token])
    IN
    /\ \E rsp \in Replies({OkBody}) :
          IF Raises(rsp)
          THEN /\ last' = Call("revoke_authorization", <<>>, <<req>>, HTTPError, rsp)
               /\ UNCHANGED auth
          ELSE /\ auth' = AuthUpdate(auth,
                             [authorization_datetime |-> {},
                              access_token |-> None,
                              refresh_token |-> None,
                              expires_in |-> 0])
               /\ last' = Call("revoke_authorization", <<>>, <<req>>, "ok", rsp)
    /\ now' = now + 1
    /\ UNCHANGED linkUri
    /\ UNCHANGED pagesVars

\* The keys an event dictionary may carry.
EventKeys == {EVENTS_REQUIRED_FIELDS[i] : i \in DOMAIN EVENTS_REQUIRED_FIELDS}

\* upsert_event that posts first and validates afterwards.
upsert_event_ValidatesAfterSend ==
    \E calendar_id \in {"cal"}, event \in SUBSET EventKeys :
      LET args == [calendar_id |-> calendar_id, event |-> event]
          missing == {i \in DOMAIN EVENTS_REQUIRED_FIELDS :
                         EVENTS_REQUIRED_FIELDS[i] \notin event}
          req == Request("POST", <<"calendars", calendar_id, "events">>, event)
      IN
      /\ \E rsp \in Replies({OkBody}) :
            IF Raises(rsp)
            THEN last' = Call("upsert_event", args, <<req>>, HTTPError, rsp)
            ELSE IF missing # {}
            THEN last' = Call("upsert_event", args, <<req>>, ValidationError,
                              [not_found |-> EVENTS_REQUIRED_FIELDS[
                                   CHOOSE i \in missing : \A j \in missing : i <= j]])
            ELSE last' = Call("upsert_event", args, <<req>>, "ok", rsp)
      /\ now' = now + 1
      /\ UNCHANGED <<auth, linkUri>>
      /\ UNCHANGED pagesVars

upsert_event ==
    \E calendar_id \in {"cal"}, event \in SUBSET EventKeys :
      LET args == [calendar_id |-> calendar_id, event |-> event]
          missing == {i \in DOMAIN EVENTS_REQUIRED_FIELDS :
                         EVENTS_REQUIRED_FIELDS[i] \notin event}
      IN
      /\ IF missing # {}
         THEN last' = Call("upsert_event", args, <<>>, ValidationError,
                           [not_found |-> EVENTS_REQUIRED_FIELDS[
                                CHOOSE i \in missing : \A j \in missing : i <= j]])
         ELSE \E rsp \in Replies({OkBody}) :
                 last' = Call("upsert_event", args,
                              <<Request("POST", <<"calendars", calendar_id, "events">>, event)>>,
                              IF Raises(rsp) THEN HTTPError ELSE "ok", rsp)
      /\ now' = now + 1
      /\ UNCHANGED <<auth, linkUri>>
      /\ UNCHANGED pagesVars

\* user_auth_link that stores redirect_uri only once its GET has succeeded.
user_auth_link_StoresAfterGet ==
    \E redirect_uri \in RedirectUris, scope \in {<<>>, <<"read_events">>}, state \in {""} :
      LET args == [redirect_uri |-> redirect_uri, scope |-> scope, state |-> state]
          scope1 == IF scope = <<>> THEN DEFAULT_OAUTH_SCOPE ELSE scope
          req == Request("GET", <<APP_BASE_URL, "oauth/authorize">>,
                    [response_type |-> "code",
                     client_id |-> auth.client_id,
                     redirect_uri |-> redirect_uri,
                     scope |-> scope1,
                     state |-> state])
      IN
      /\ linkUri' = {redirect_uri}
      /\ \E rsp \in Replies({OkBody}) :
            /\ last' = Call("user_auth_link", args, <<req>>,
                            IF Raises(rsp) THEN HTTPError ELSE "ok", rsp)
            /\ auth' = IF Raises(rsp) THEN auth
                       ELSE AuthUpdate(auth, [redirect_uri |-> redirect_uri])
      /\ now' = now + 1
      /\ UNCHANGED pagesVars

user_auth_link ==
    \E redirect_uri \in RedirectUris, scope \in {<<>>, <<"read_events">>}, state \in {""} :
      LET args == [redirect_uri |-> redirect_uri, scope |-> scope, state |-> state]
          scope1 == IF scope = <<>> THEN DEFAULT_OAUTH_SCOPE ELSE scope
          updated == AuthUpdate(auth, [redirect_uri |-> redirect_uri])
          req == Request("GET", <<APP_BASE_URL, "oauth/authorize">>,
                    [response_type |-> "code",
                     client_id |-> updated.client_id,
                     redirect_uri |-> redirect_uri,
                     scope |-> scope1,
                     state |-> state])
      IN
      /\ auth' = updated
      /\ linkUri' = {redirect_uri}
      /\ \E rsp \in Replies({OkBody}) :
            last' = Call("user_auth_link", args, <<req>>,
                         IF Raises(rsp) THEN HTTPError ELSE "ok", rsp)
      /\ now' = now + 1
      /\ UNCHANGED pagesVars

-----------------------------------------------------------------------------
(* The consumer: it holds at most one Pages object, iterates it, and lets *)
(* go of it before it calls the client again.                             *)

Discard ==
    /\ pages.state # "NONE"
    /\ srv' = <<0>>
    /\ pages' = NoPages
    /\ yielded' = <<>>
    /\ fetches' = 0
    /\ failures' = 0
    /\ step' = NoStep
    /\ UNCHANGED clientVars

CanCall == pages.state = "NONE" /\ now < MaxCalls

Next ==
    \/ CanCall /\ account
    \/ CanCall /\ close_notification_channel
    \/ CanCall /\ create_notification_channel
    \/ CanCall /\ delete_event
    \/ CanCall /\ get_authorization_from_code
    \/ CanCall /\ list_calendars
    \/ CanCall /\ list_profiles
    \/ CanCall /\ list_notification_channels
    \/ CanCall /\ read_events
    \/ CanCall /\ read_free_busy
    \/ CanCall /\ refresh_access_token
    \/ CanCall /\ revoke_authorization
    \/ CanCall /\ upsert_event
    \/ CanCall /\ user_auth_link
    \/ PagesNext
    \/ Discard

Spec == Init /\ [][Next]_vars

-----------------------------------------------------------------------------
(* Properties *)

ReadOps == {"read_events", "read_free_busy"}
TokenOps == {"get_authorization_from_code", "refresh_access_token"}

\* The items of pages 1..n of result set s, in page order and in-page order.
RECURSIVE ItemsUpTo(_, _, _)
ItemsUpTo(s, n, key) ==
    IF n = 0 THEN <<>>
    ELSE ItemsUpTo(s, n - 1, key) \o PageBody(s, n, key)[key]

\* A Pages object is being iterated; it is the one the last Client call returned.
Iterating == pages.state # "NONE"
AskedAuto == last.op \in ReadOps /\ last.outcome = "ok" /\ last.args.automatic_pagination
AskedManual == last.op \in ReadOps /\ last.outcome = "ok" /\ ~last.args.automatic_pagination

\* C1: iterating the Pages of read_events / read_free_busy called with
\* automatic_pagination=true over N pages served without error yields the
\* pages' items in page order and in-page order; a follow-up GET is issued
\* only once every item of the current page has been yielded, so the GETs
\* issued number one less than the page reached; when the iteration ends it
\* has yielded all N pages with exactly N-1 follow-up GETs, and no GET
\* follows page N.
C1_AutoPaginationYieldsAllPages ==
    (Iterating /\ AskedAuto /\ failures = 0) =>
        /\ fetches <= Len(srv) - 1
        /\ pages.data = PageBody(srv, fetches + 1, pages.result_key)
        /\ yielded = ItemsUpTo(srv, fetches, pages.result_key)
                         \o SubSeq(Items(pages), 1, pages.cursor)
        /\ pages.state = "EXHAUSTED" =>
              /\ yielded = ItemsUpTo(srv, Len(srv), pages.result_key)
              /\ fetches = Len(srv) - 1
              /\ step.out = "StopIteration"

C1_Witness ==
    /\ Iterating /\ AskedAuto /\ failures = 0
    /\ pages.state = "EXHAUSTED"
    /\ Len(srv) = MaxPages
    /\ \A p \in DOMAIN srv : srv[p] = MaxPageLen
    /\ fetches = MaxPages - 1

\* C2: iterating the Pages of a read called with automatic_pagination=false
\* yields the first page's items in order and then ends, with no follow-up
\* GET, whether or not the first page carries a next-page link; the page
\* held, and so its next-page link, stays the first page's after the end.
C2_ManualPaginationStopsAtFirstPage ==
    (Iterating /\ AskedManual) =>
        /\ fetches = 0
        /\ pages.data = PageBody(srv, 1, pages.result_key)
        /\ pages.data.next_page = (IF Len(srv) > 1 THEN {2} ELSE {})
        /\ yielded = SubSeq(Items(pages), 1, pages.cursor)
        /\ step.out # HTTPError
        /\ pages.state = "EXHAUSTED" <=> step.out = "StopIteration"
        /\ pages.state = "EXHAUSTED" => yielded = Items(pages)

C2_Witness ==
    /\ Iterating /\ AskedManual
    /\ pages.state = "EXHAUSTED"
    /\ Len(srv) > 1
    /\ pages.data.next_page = {2}
    /\ Len(yielded) = MaxPageLen

Cleared(a) ==
    /\ a.access_token = None
    /\ a.refresh_token = None
    /\ a.authorization_datetime = {}
    /\ a.expires_in = 0

\* C3: after revoke_authorization, access_token, refresh_token and
\* authorization_datetime are empty and expires_in is 0, also when the
\* remote revoke call returned a non-2xx status.
C3_RevokeAlwaysClears ==
    last.op = "revoke_authorization" => Cleared(auth)

\* C4: upsert_event with an event that lacks any of the required fields
\* fails with a validation error and sends no HTTP request.
C4_UpsertValidatesBeforeSending ==
    (last.op = "upsert_event" /\ ~(EventKeys \subseteq last.args.event)) =>
        /\ last.reqs = <<>>
        /\ last.outcome = ValidationError

C4_Witness ==
    /\ last.op = "upsert_event"
    /\ last.args.event = EventKeys \ {"end"}
    /\ last.outcome = ValidationError
    /\ last.resp = [not_found |-> "end"]

\* C5: after a successful get_authorization_from_code, Auth holds the
\* access_token, refresh_token and expires_in of the token response and an
\* authorization_datetime equal to the current time.
C5_CodeExchangeStoresTokens ==
    (last.op = "get_authorization_from_code" /\ last.outcome = "ok") =>
        /\ auth.access_token = last.resp.body.access_token
        /\ auth.refresh_token = last.resp.body.refresh_token
        /\ auth.expires_in = last.resp.body.expires_in
        /\ auth.authorization_datetime = {now}

C5_Witness ==
    /\ last.op = "get_authorization_from_code" /\ last.outcome = "ok"
    /\ now = MaxCalls
    /\ auth.access_token = "B" /\ auth.refresh_token = "S" /\ auth.expires_in = 7200

\* C6: a get_authorization_from_code or refresh_access_token that fails (an
\* HTTP error, or a response lacking an expected token field) leaves every
\* Auth field as it was; one that succeeds sets all its token fields.
C6_TokenUpdateAtomic ==
    [][(now' # now /\ last'.op \in TokenOps) =>
          IF last'.outcome = "ok"
          THEN /\ auth'.access_token = last'.resp.body.access_token
               /\ auth'.expires_in = last'.resp.body.expires_in
               /\ auth'.authorization_datetime = {now'}
               /\ last'.op = "get_authorization_from_code" =>
                     auth'.refresh_token = last'.resp.body.refresh_token
          ELSE auth' = auth]_vars

C6_Witness ==
    /\ last.op = "refresh_access_token"
    /\ last.outcome = KeyError
    /\ DOMAIN last.resp.body = {"access_token", "refresh_token"}
    /\ last.resp.body.access_token # auth.access_token

\* C7: a successful refresh_access_token leaves refresh_token, client_id,
\* client_secret and redirect_uri unchanged, and every refresh_access_token
\* sends the refresh_token Auth holds.
C7_RefreshKeepsRefreshToken ==
    [][(now' # now /\ last'.op = "refresh_access_token") =>
          /\ last'.reqs[1].data.refresh_token = auth.refresh_token
          /\ auth'.refresh_token = auth.refresh_token
          /\ auth'.client_id = auth.client_id
          /\ auth'.client_secret = auth.client_secret
          /\ auth'.redirect_uri = auth.redirect_uri]_vars

C7_Witness ==
    /\ last.op = "refresh_access_token" /\ last.outcome = "ok"
    /\ "refresh_token" \in DOMAIN last.resp.body
    /\ last.resp.body.refresh_token # auth.refresh_token
    /\ auth.refresh_token = "R"
    /\ last.reqs[1].data.refresh_token = "R"
    /\ now = MaxCalls

\* C8: when a follow-up GET of the iteration fails, the error is the outcome
\* of the next() that issued it, every item of the pages fetched before has
\* been yielded in order, and the Pages object still holds the page it held
\* with its cursor at the end; with or without errors no item is yielded
\* twice or skipped.
C8_FetchErrorKeepsIteratorState ==
    Iterating =>
        LET fetched == fetches - failures IN
        /\ pages.data = PageBody(srv, fetched + 1, pages.result_key)
        /\ yielded = ItemsUpTo(srv, fetched, pages.result_key)
                         \o SubSeq(Items(pages), 1, pages.cursor)
        /\ step.out = HTTPError =>
              /\ failures > 0
              /\ pages.state = "HAS_CURRENT_PAGE"
              /\ pages.cursor = Len(Items(pages))
              /\ yielded = ItemsUpTo(srv, fetched + 1, pages.result_key)

C8_Witness ==
    /\ Iterating
    /\ step.out = HTTPError
    /\ Len(yielded) = MaxPageLen
    /\ pages.data.next_page = {2}

\* C9: a Client call sends at most one HTTP request, whatever its outcome,
\* and a call that is not a token call sends none to the token endpoint; a
\* next() of the iteration sends one GET per page boundary it crosses, plus
\* the one that failed when it ends in an HTTP error.
C9_OneRoundTripPerCall ==
    /\ Len(last.reqs) <= 1
    /\ \A i \in DOMAIN last.reqs :
          last.op \notin TokenOps =>
              last.reqs[i].target # <<API_BASE_URL, "oauth/token">>
    /\ step.gets = step.crossed + (IF step.out = HTTPError THEN 1 ELSE 0)

C9_Witness ==
    /\ last.op = "read_events"
    /\ Len(last.reqs) = 1
    /\ step.out = "item"
    /\ step.gets = 1
    /\ step.crossed = 1

\* C10: get_authorization_from_code sends the redirect_uri passed to it when
\* that is non-empty and otherwise the one Auth holds; Auth holds the
\* redirect_uri of the most recent user_auth_link call, whether or not that
\* call's GET succeeded, and an override never changes it.
C10_RedirectUriSent ==
    /\ linkUri # {} => auth.redirect_uri \in linkUri
    /\ linkUri = {} => auth.redirect_uri = None
    /\ last.op = "get_authorization_from_code" =>
          last.reqs[1].data.redirect_uri =
              (IF last.args.redirect_uri # "" THEN last.args.redirect_uri
               ELSE auth.redirect_uri)

C10_Witness ==
    /\ last.op = "get_authorization_from_code"
    /\ last.args.redirect_uri = ""
    /\ linkUri = {"https://a/cb"}
    /\ last.reqs[1].data.redirect_uri = "https://a/cb"

====
